---- MODULE Spec2Model ----
(***************************************************************************)
(* Model of the Web Screenshot API (src/main.py): the two /screenshot      *)
(* handlers with their validation, capture_screenshot with one step per    *)
(* await, and the download / delete / list handlers over the storage       *)
(* directory TEMP_DIR.                                                      *)
(*                                                                         *)
(* The event loop is single-threaded: a handler runs atomically between    *)
(* two awaits, so every action below is the code between two awaits.       *)
(*                                                                         *)
(* A file name is the record [prefix, hex, ext]: "screenshot_" + hex +     *)
(* "." + ext.  uuid.uuid4() is modelled as a value never produced before   *)
(* (NewHex); names created from outside the service have hex = 0.          *)
(***************************************************************************)
EXTENDS Integers, Sequences, FiniteSets, TLC

VARIABLES
    caps,        \* capture_screenshot calls in flight: id -> locals of the call
    nextHex,     \* number of uuid4 values drawn so far
    storage,     \* TEMP_DIR: file name -> "file" | "dir"
    browsers,    \* browser instances that are open
    last,        \* the handler call made most recently and its immediate outcome
    accepted,    \* number of requests handed to capture_screenshot
    attempts,    \* number of chromium.launch calls made
    responses,   \* responses sent after a capture: {[status, reqFormat, filename]}
    nsucc,       \* number of success responses sent
    removed      \* generated file names that a successful DELETE removed

vars == <<caps, nextHex, storage, browsers, last,
          accepted, attempts, responses, nsucc, removed>>

-----------------------------------------------------------------------------
(* Bounds of the model *)

MaxCaptures == 2

(* Program constants *)

MinWidth == 100
MaxWidth == 3840
MinHeight == 100
MaxHeight == 2160
MinQuality == 1
MaxQuality == 100
MinTimeout == 5000
MaxTimeout == 120000

-----------------------------------------------------------------------------
(* Inputs *)

Schemes == {"http://", "https://", "ftp://"}
Formats == {"png", "jpeg", "jpg", "gif", "PNG"}
Widths == {MinWidth - 1, MinWidth, MaxWidth, MaxWidth + 1}
Heights == {MinHeight - 1, MinHeight, MaxHeight, MaxHeight + 1}
Qualities == {MinQuality - 1, MinQuality, MaxQuality, MaxQuality + 1}
Timeouts == {MinTimeout - 1, MinTimeout}

AllRequests ==
    [path : {"POST", "GET"}, scheme : Schemes, width : Widths, height : Heights,
     format : Formats, quality : Qualities, timeout : Timeouts]

NoReq ==
    [path |-> "", scheme |-> "", width |-> 0, height |-> 0,
     format |-> "", quality |-> 0, timeout |-> 0]

NoName == [prefix |-> "", hex |-> 0, ext |-> ""]

NoBrowser == <<0, 0>>

(* entries that something other than the service puts into TEMP_DIR *)
ExternalEntries ==
    { <<[prefix |-> "screenshot_", hex |-> 0, ext |-> "d"], "dir">>,
      <<[prefix |-> "notes_", hex |-> 0, ext |-> "txt"], "file">> }

ExternalNames == { e[1] : e \in ExternalEntries }

(* the file names a request can name *)
AllNames ==
    ExternalNames \cup
    { [prefix |-> "screenshot_", hex |-> h, ext |-> "png"] : h \in 1..MaxCaptures }

-----------------------------------------------------------------------------
(* Pure functions of the code *)

(* variant: the format name itself is used as the extension *)
FileExtensionOfFormat(format) == format

(* file_extension = "png" if format == "png" else "jpg" *)
FileExtension(format) == IF format = "png" THEN "png" ELSE "jpg"

(* f"screenshot_{uuid.uuid4().hex}.{file_extension}" *)
Filename(format, hex) ==
    [prefix |-> "screenshot_", hex |-> hex, ext |-> FileExtension(format)]

(* uuid.uuid4(): a value that was never drawn before *)
NewHex(n) == n + 1

(* format_normalized of take_screenshot_post *)
NormalizePost(format) == IF format = "png" THEN "png" ELSE "jpeg"

(* variant: only "jpeg" is kept, so that "jpg" becomes "png" *)
NormalizeGetJpegOnly(format) == IF format = "jpeg" THEN "jpeg" ELSE "png"

(* format_normalized of take_screenshot_get *)
NormalizeGet(format) == IF format = "png" THEN "png" ELSE "jpeg"

(* url.startswith(('http://', 'https://')) *)
StartsWithHttp(scheme) == scheme \in {"http://", "https://"}

(* ScreenshotRequest: url is an HttpUrl, the other fields are only typed *)
BodyValid(r) == r.scheme \in {"http://", "https://"}

(* regex="^(png|jpeg|jpg)$": the anchored pattern is taken to match the  *)
(* three strings and nothing else (the strings of Formats hold no line   *)
(* terminator, on which pattern engines differ for $)                    *)
PatternMatches(format) == format \in {"png", "jpeg", "jpg"}

(* the Query(...) constraints of take_screenshot_get *)
QueryValid(r) ==
    /\ r.width >= MinWidth /\ r.width <= MaxWidth
    /\ r.height >= MinHeight /\ r.height <= MaxHeight
    /\ PatternMatches(r.format)
    /\ r.quality >= MinQuality /\ r.quality <= MaxQuality
    /\ r.timeout >= MinTimeout /\ r.timeout <= MaxTimeout

(* variant: the width is not validated *)
PostRaisedNoWidth(r) ==
    IF r.format \notin {"png", "jpeg", "jpg"} THEN 400
    ELSE IF NormalizePost(r.format) = "jpeg"
            /\ (r.quality < MinQuality \/ r.quality > MaxQuality) THEN 400
    ELSE IF r.height < MinHeight \/ r.height > MaxHeight THEN 400
    ELSE 0

(* the status of the HTTPException raised inside the try block of *)
(* take_screenshot_post before capture_screenshot is called, 0 if none *)
PostRaised(r) ==
    IF r.format \notin {"png", "jpeg", "jpg"} THEN 400
    ELSE IF NormalizePost(r.format) = "jpeg"
            /\ (r.quality < MinQuality \/ r.quality > MaxQuality) THEN 400
    ELSE IF r.width < MinWidth \/ r.width > MaxWidth THEN 400
    ELSE IF r.height < MinHeight \/ r.height > MaxHeight THEN 400
    ELSE 0

(* the same for take_screenshot_get *)
GetRaised(r) == IF ~StartsWithHttp(r.scheme) THEN 400 ELSE 0

(* except Exception as e: raise HTTPException(status_code=500, ...)        *)
(* HTTPException is an Exception, so the clause also catches the handler's *)
(* own HTTPException(400)                                                  *)
ExceptException(raisedStatus) == 500

(* media type of download_screenshot *)
MediaType(name) == IF name.ext = "png" THEN "image/png" ELSE "image/jpeg"

(* Path.exists *)
Exists(name, dir) == name \in DOMAIN dir

(* variant: every file of the directory is listed, glob("*") *)
ListedAnyFile(name, dir) == dir[name] = "file"

(* TEMP_DIR.glob("screenshot_*") filtered by file.is_file() *)
Listed(name, dir) == name.prefix = "screenshot_" /\ dir[name] = "file"

(* the screenshots list built by the loop of list_screenshots; the order is *)
(* the order of the directory enumeration                                   *)
RECURSIVE Screenshots(_, _)
Screenshots(entries, dir) ==
    IF entries = {} THEN << >>
    ELSE LET file == CHOOSE n \in entries : TRUE
             rest == Screenshots(entries \ {file}, dir)
         IN  IF Listed(file, dir) THEN <<file>> \o rest ELSE rest

-----------------------------------------------------------------------------
(* State *)

Resp(op, req, name, status, fmt, count, shots) ==
    [op |-> op, req |-> req, name |-> name, status |-> status,
     fmt |-> fmt, count |-> count, screenshots |-> shots]

NoResp == Resp("none", NoReq, NoName, 0, "", 0, << >>)

(* TEMP_DIR.mkdir(exist_ok=True): the directory may hold entries already *)
InitWith(dir) ==
    /\ storage = dir
    /\ caps = << >>
    /\ nextHex = 0
    /\ browsers = {}
    /\ last = NoResp
    /\ accepted = 0
    /\ attempts = 0
    /\ responses = {}
    /\ nsucc = 0
    /\ removed = {}

Init == InitWith(<< >>)

(* the removal of a file is remembered for the generated names *)
Removal(name) == IF name.hex # 0 THEN {name} ELSE {}

Remove(f, x) == [y \in DOMAIN f \ {x} |-> f[y]]
Put(f, x, v) == [y \in DOMAIN f \cup {x} |-> IF y = x THEN v ELSE f[y]]

-----------------------------------------------------------------------------
(* /screenshot handlers up to the call of capture_screenshot *)

(* the request is answered without a capture *)
Reject(r, status) ==
    /\ last' = Resp("screenshot", r, NoName, status, "", 0, << >>)
    /\ UNCHANGED <<caps, nextHex, storage, browsers,
                   accepted, attempts, responses, nsucc, removed>>

(* variant: the file is created when its name is generated *)
EnterCaptureTouch(r, fmt) ==
    /\ accepted < MaxCaptures
    /\ accepted' = accepted + 1
    /\ nextHex' = NewHex(nextHex)
    /\ caps' = Put(caps, accepted + 1,
                   [reqFormat |-> r.format, format |-> fmt,
                    filename |-> Filename(fmt, NewHex(nextHex)),
                    pc |-> "launch", err |-> "none", browser |-> NoBrowser,
                    launches |-> 0])
    /\ storage' = Put(storage, Filename(fmt, NewHex(nextHex)), "file")
    /\ last' = Resp("screenshot", r, NoName, 0, fmt, 0, << >>)
    /\ UNCHANGED <<browsers, attempts, responses, nsucc, removed>>

(* capture_screenshot is entered: the file name is generated and the call *)
(* suspends at the launch of the browser                                  *)
EnterCapture(r, fmt) ==
    /\ accepted < MaxCaptures
    /\ accepted' = accepted + 1
    /\ nextHex' = NewHex(nextHex)
    /\ caps' = Put(caps, accepted + 1,
                   [reqFormat |-> r.format, format |-> fmt,
                    filename |-> Filename(fmt, NewHex(nextHex)),
                    pc |-> "launch", err |-> "none", browser |-> NoBrowser,
                    launches |-> 0])
    /\ last' = Resp("screenshot", r, NoName, 0, fmt, 0, << >>)
    /\ UNCHANGED <<storage, browsers,
                   attempts, responses, nsucc, removed>>

take_screenshot_post(r) ==
    /\ r.path = "POST"
    /\ IF ~BodyValid(r) THEN Reject(r, 422)
       ELSE IF PostRaised(r) # 0 THEN Reject(r, ExceptException(PostRaised(r)))
       ELSE EnterCapture(r, NormalizePost(r.format))

take_screenshot_get(r) ==
    /\ r.path = "GET"
    /\ IF ~QueryValid(r) THEN Reject(r, 422)
       ELSE IF GetRaised(r) # 0 THEN Reject(r, ExceptException(GetRaised(r)))
       ELSE EnterCapture(r, NormalizeGet(r.format))

-----------------------------------------------------------------------------
(* capture_screenshot, one action per await *)

SetCap(i, pc, err) == [caps EXCEPT ![i].pc = pc, ![i].err = err]

(* the call ends: the async with block is left and the handler answers,   *)
(* 200 with the file name when nothing was raised, otherwise through its  *)
(* except clause.  asyncio.sleep raises only when the task is cancelled,  *)
(* which is no Exception: the except clause is passed and no response is  *)
(* sent (status 0)                                                        *)
EndCapture(i, err) ==
    LET c == caps[i]
        status == IF err = "none" THEN 200
                  ELSE IF err = "sleep" THEN 0
                  ELSE ExceptException(0)
    IN  /\ caps' = Remove(caps, i)
        /\ UNCHANGED last
        /\ responses' = responses \cup
               {[status |-> status, reqFormat |-> c.reqFormat,
                 filename |-> IF err = "none" THEN c.filename ELSE NoName]}
        /\ nsucc' = IF err = "none" THEN nsucc + 1 ELSE nsucc

(* the browser object that the launch made by call i returns, after n *)
(* earlier launches of that call: a new process, named by its origin  *)
NewBrowser(i, n) == <<i, n + 1>>

(* variant: a launch that fails is tried again *)
LaunchRetry(i) ==
    /\ i \in DOMAIN caps /\ caps[i].pc = "launch"
    /\ attempts' = attempts + 1
    /\ \/ /\ browsers' = browsers \cup {NewBrowser(i, caps[i].launches)}
          /\ caps' = [caps EXCEPT ![i].pc = "context",
                                  ![i].browser = NewBrowser(i, caps[i].launches),
                                  ![i].launches = @ + 1]
       \/ /\ attempts < MaxCaptures + 1
          /\ UNCHANGED <<caps, browsers>>
    /\ UNCHANGED <<nextHex, storage, accepted, removed, last, responses, nsucc>>

(* browser = await p.chromium.launch(...) *)
Launch(i) ==
    /\ i \in DOMAIN caps /\ caps[i].pc = "launch"
    /\ attempts' = attempts + 1
    /\ \/ /\ browsers' = browsers \cup {NewBrowser(i, caps[i].launches)}
          /\ caps' = [caps EXCEPT ![i].pc = "context",
                                  ![i].browser = NewBrowser(i, caps[i].launches),
                                  ![i].launches = @ + 1]
          /\ UNCHANGED <<last, responses, nsucc>>
       \/ /\ EndCapture(i, "launch")
          /\ UNCHANGED browsers
    /\ UNCHANGED <<nextHex, storage, accepted, removed>>

(* variant: no finally block, an exception leaves the call at once *)
TryStepNoFinally(i, stage, next) ==
    /\ i \in DOMAIN caps /\ caps[i].pc = stage
    /\ \/ /\ caps' = SetCap(i, next, "none")
          /\ UNCHANGED <<last, responses, nsucc>>
       \/ EndCapture(i, stage)
    /\ UNCHANGED <<nextHex, storage, browsers, accepted, attempts, removed>>

(* an await inside the try block that writes no file: it returns or raises *)
TryStep(i, stage, next) ==
    /\ i \in DOMAIN caps /\ caps[i].pc = stage
    /\ \/ caps' = SetCap(i, next, "none")
       \/ caps' = SetCap(i, "close", stage)
    /\ UNCHANGED <<nextHex, storage, browsers, last,
                   accepted, attempts, responses, nsucc, removed>>

(* context = await browser.new_context(...) *)
NewContext(i) == TryStep(i, "context", "page")

(* page = await context.new_page(); page.set_default_timeout(timeout) *)
NewPage(i) == TryStep(i, "page", "goto")

(* await page.goto(url, wait_until='networkidle') *)
Goto(i) == TryStep(i, "goto", "sleep")

(* await asyncio.sleep(2) *)
Sleep(i) == TryStep(i, "sleep", "shot")

(* variant: the screenshot is taken without the path option *)
ScreenshotNoPath(i) ==
    /\ i \in DOMAIN caps /\ caps[i].pc = "shot"
    /\ \/ caps' = SetCap(i, "close", "none")
       \/ caps' = SetCap(i, "close", "shot")
    /\ UNCHANGED <<nextHex, storage, browsers, last,
                   accepted, attempts, responses, nsucc, removed>>

(* await page.screenshot with path = filepath: the image is written   *)
(* to that path; when the step raises the file may or may not have been  *)
(* written                                                                *)
Screenshot(i) ==
    /\ i \in DOMAIN caps /\ caps[i].pc = "shot"
    /\ \/ /\ caps' = SetCap(i, "close", "none")
          /\ storage' = Put(storage, caps[i].filename, "file")
       \/ /\ caps' = SetCap(i, "close", "shot")
          /\ \/ storage' = storage
             \/ storage' = Put(storage, caps[i].filename, "file")
    /\ UNCHANGED <<nextHex, browsers, last,
                   accepted, attempts, responses, nsucc, removed>>

(* finally: await browser.close(), then the call returns or re-raises *)
Close(i) ==
    /\ i \in DOMAIN caps /\ caps[i].pc = "close"
    /\ browsers' = browsers \ {caps[i].browser}
    /\ EndCapture(i, caps[i].err)
    /\ UNCHANGED <<nextHex, storage,
                   accepted, attempts, removed>>

-----------------------------------------------------------------------------
(* storage handlers *)

StorageFrame ==
    UNCHANGED <<caps, nextHex, browsers,
                accepted, attempts, responses, nsucc>>

(* GET /download/{filename} *)
download_screenshot(name) ==
    /\ last' = Resp("download", NoReq, name,
                    IF ~Exists(name, storage) THEN 404
                    ELSE IF storage[name] = "file" THEN 200 ELSE 500,
                    MediaType(name), 0, << >>)
    /\ UNCHANGED <<storage, removed>>
    /\ StorageFrame

(* variant: the existence check sits inside the try block, so that its *)
(* HTTPException(404) is caught by the except clause                  *)
delete_screenshot_in_try(name) ==
    /\ IF ~Exists(name, storage)
       THEN /\ last' = Resp("delete", NoReq, name, ExceptException(404), "", 0, << >>)
            /\ UNCHANGED <<storage, removed>>
       ELSE IF storage[name] = "file"
       THEN /\ storage' = Remove(storage, name)
            /\ removed' = removed \cup Removal(name)
            /\ last' = Resp("delete", NoReq, name, 200, "", 0, << >>)
       ELSE /\ last' = Resp("delete", NoReq, name, 500, "", 0, << >>)
            /\ UNCHANGED <<storage, removed>>
    /\ StorageFrame

(* DELETE /screenshot/{filename} *)
delete_screenshot(name) ==
    /\ IF ~Exists(name, storage)
       THEN /\ last' = Resp("delete", NoReq, name, 404, "", 0, << >>)
            /\ UNCHANGED <<storage, removed>>
       ELSE IF storage[name] = "file"
       THEN /\ storage' = Remove(storage, name)
            /\ removed' = removed \cup Removal(name)
            /\ last' = Resp("delete", NoReq, name, 200, "", 0, << >>)
       ELSE /\ last' = Resp("delete", NoReq, name, 500, "", 0, << >>)
            /\ UNCHANGED <<storage, removed>>
    /\ StorageFrame

(* GET /list *)
list_screenshots ==
    /\ LET screenshots == Screenshots(DOMAIN storage, storage)
       IN  last' = Resp("list", NoReq, NoName, 200, "", Len(screenshots), screenshots)
    /\ UNCHANGED <<storage, removed>>
    /\ StorageFrame

(* a file or directory is created in TEMP_DIR from outside the service *)
ExternalCreate(name, kind) ==
    /\ <<name, kind>> \in ExternalEntries /\ ~Exists(name, storage)
    /\ storage' = Put(storage, name, kind)
    /\ UNCHANGED removed
    /\ UNCHANGED last
    /\ StorageFrame

(* an entry that was put into TEMP_DIR from outside is removed from outside *)
ExternalRemove(name) ==
    /\ name \in ExternalNames /\ Exists(name, storage)
    /\ storage' = Remove(storage, name)
    /\ UNCHANGED <<last, removed>>
    /\ StorageFrame

-----------------------------------------------------------------------------
(* Specifications *)

CaptureStep ==
    \E i \in 1..MaxCaptures :
        \/ Launch(i)
        \/ NewContext(i)
        \/ NewPage(i)
        \/ Goto(i)
        \/ Sleep(i)
        \/ Screenshot(i)
        \/ Close(i)

StorageStep ==
    \/ \E name \in AllNames : download_screenshot(name)
    \/ \E name \in AllNames : delete_screenshot(name)
    \/ list_screenshots
    \/ \E e \in ExternalEntries : ExternalCreate(e[1], e[2])
    \/ \E name \in ExternalNames : ExternalRemove(name)

Req(path, scheme, format) ==
    [path |-> path, scheme |-> scheme, width |-> MinWidth, height |-> MaxHeight,
     format |-> format, quality |-> MaxQuality, timeout |-> MinTimeout]

(* Spec: concurrent requests, three that are accepted and two that are  *)
(* refused, and their captures                                          *)
Requests ==
    { Req("POST", "https://", "png"), Req("POST", "https://", "jpg"),
      Req("GET", "http://", "jpeg"),
      Req("POST", "http://", "gif"), Req("GET", "ftp://", "png") }

Next ==
    \/ \E r \in Requests : take_screenshot_post(r)
    \/ \E r \in Requests : take_screenshot_get(r)
    \/ CaptureStep

Spec == Init /\ [][Next]_vars

(* SpecV: one request drawn from all the combinations of boundary values, *)
(* sent to an idle service whose directory is empty or holds a file       *)
NextV ==
    \/ last = NoResp /\ \E r \in AllRequests : take_screenshot_post(r)
    \/ last = NoResp /\ \E r \in AllRequests : take_screenshot_get(r)
    \/ CaptureStep

InitV ==
    \E dir \in { << >>, [n \in {[prefix |-> "notes_", hex |-> 0, ext |-> "txt"]} |-> "file"] } :
        InitWith(dir)

SpecV == InitV /\ [][NextV]_vars

(* SpecS: captures running concurrently with downloads, deletes, lists and *)
(* changes made to TEMP_DIR from outside                                   *)
StorageRequests == { Req("POST", "https://", "png"), Req("GET", "http://", "png") }

NextS ==
    \/ \E r \in StorageRequests : take_screenshot_post(r)
    \/ \E r \in StorageRequests : take_screenshot_get(r)
    \/ CaptureStep
    \/ StorageStep

SpecS == Init /\ [][NextS]_vars

-----------------------------------------------------------------------------
(* Properties *)

ValidFormats == {"png", "jpeg", "jpg"}

WidthOutside(r) == r.width < 100 \/ r.width > 3840
HeightOutside(r) == r.height < 100 \/ r.height > 2160
QualityOutside(r) == r.quality < 1 \/ r.quality > 100
LacksHttpPrefix(r) == r.scheme \notin {"http://", "https://"}

(* the validation failures that the handler code itself looks for *)
HandlerFailure(r) ==
    \/ /\ r.path = "POST"
       /\ \/ r.format \notin ValidFormats
          \/ r.format \in {"jpeg", "jpg"} /\ QualityOutside(r)
          \/ WidthOutside(r)
          \/ HeightOutside(r)
    \/ r.path = "GET" /\ LacksHttpPrefix(r)

(* the validation failures of either entry point *)
ValidationFailure(r) ==
    \/ WidthOutside(r)
    \/ HeightOutside(r)
    \/ r.format \notin ValidFormats
    \/ r.path = "POST" /\ r.format \in {"jpeg", "jpg"} /\ QualityOutside(r)
    \/ r.path = "GET" /\ LacksHttpPrefix(r)

Files == {n \in DOMAIN storage : storage[n] = "file"}
InFlight == DOMAIN caps
HoldsBrowser(i) == caps[i].pc \in {"context", "page", "goto", "sleep", "shot", "close"}
Successes == {r \in responses : r.status = 200}
Returned == {r.filename : r \in Successes}
Range(seq) == {seq[k] : k \in 1..Len(seq)}

(* C1: every validation failure that the handler code detects (POST:     *)
(* format, jpeg quality, width, height; GET: url prefix) is answered     *)
(* with status 400.                                                      *)
C1_HandlerFailureIs400 ==
    (last.op = "screenshot" /\ last.status # 422 /\ HandlerFailure(last.req))
        => last.status = 400

(* C2: a request that fails validation never reaches the engine and      *)
(* creates no file: no capture is entered, no browser is launched and    *)
(* the storage directory keeps its files.                                *)
C2_State ==
    (last.op = "screenshot" /\ ValidationFailure(last.req))
        => /\ last.status \notin {0, 200}
           /\ caps = << >>
           /\ accepted = 0
           /\ attempts = 0
           /\ browsers = {}

C2_Step ==
    (last' # last /\ last'.op = "screenshot" /\ ValidationFailure(last'.req))
        => /\ storage' = storage
           /\ browsers' = browsers
           /\ attempts' = attempts

C2_InvalidNeverReachesEngine ==
    /\ [] C2_State
    /\ [][C2_Step]_vars
    /\ [][ValidationFailure(last.req) => storage' = storage]_vars

C2_Witness ==
    /\ last.op = "screenshot"
    /\ WidthOutside(last.req)
    /\ last.req.format = "png" /\ ~HeightOutside(last.req) /\ ~LacksHttpPrefix(last.req)
    /\ last.req.path = "POST"
    /\ last.status >= 400
    /\ storage # << >>

(* C3: every open browser belongs to a capture_screenshot call that is   *)
(* still in flight and has not passed its finally block, so once no      *)
(* capture is in flight, whether the calls returned or raised, no        *)
(* browser is open.                                                      *)
C3_BrowserReleased ==
    /\ \A b \in browsers : \E i \in InFlight : HoldsBrowser(i) /\ caps[i].browser = b
    /\ InFlight = {} => browsers = {}

C3_Witness ==
    /\ InFlight = {}
    /\ browsers = {}
    /\ \E r \in responses : r.status = 200
    /\ \E r \in responses : r.status = 500

(* C4: the file name of every success response has the extension of the  *)
(* requested format (png: png; jpeg, jpg: jpg) and names a file in       *)
(* storage; k successes return k distinct names; the screenshot step     *)
(* adds exactly the file of its own name, which did not exist before.    *)
C4_State ==
    /\ \A r \in Successes :
          /\ r.reqFormat = "png" => r.filename.ext = "png"
          /\ r.reqFormat \in {"jpeg", "jpg"} => r.filename.ext = "jpg"
          /\ r.filename.prefix = "screenshot_"
          /\ r.filename \in Files
    /\ Cardinality(Returned) = nsucc
    /\ \A i, j \in InFlight : i # j => caps[i].filename # caps[j].filename
    /\ \A i \in InFlight : caps[i].filename \notin Returned

C4_Step ==
    \A i \in InFlight :
        (caps[i].pc = "shot" /\ i \in DOMAIN caps' /\ caps'[i].pc = "close"
             /\ caps'[i].err = "none")
        => /\ caps[i].filename \notin DOMAIN storage
           /\ DOMAIN storage' = DOMAIN storage \cup {caps[i].filename}
           /\ \A n \in DOMAIN storage : storage'[n] = storage[n]

C4_OneFilePerCapture == [] C4_State /\ [][C4_Step]_vars

C4_Witness ==
    /\ nsucc = 2
    /\ {r.filename.ext : r \in Successes} = {"png", "jpg"}
    /\ Cardinality(Files) = 2

(* C5, as claimed: normalization maps "jpg" and "jpeg" to "jpeg" and      *)
(* anything else to "png", on both entry paths.                           *)
ClaimedNormalization(format) == IF format \in {"jpg", "jpeg"} THEN "jpeg" ELSE "png"

ActualNormalization(format) == IF format = "png" THEN "png" ELSE "jpeg"

C6_Step ==
    LET n == last'.name
    IN  (last'.op = "delete" /\ delete_screenshot(n)) =>
            /\ n \notin DOMAIN storage => last'.status = 404 /\ storage' = storage
            /\ n \in Files =>
                  /\ last'.status = 200
                  /\ n \notin DOMAIN storage'
                  /\ \A m \in DOMAIN storage \ {n} :
                        m \in DOMAIN storage' /\ storage'[m] = storage[m]

C6_Delete == [][C6_Step]_vars

C6_Witness ==
    /\ last.op = "delete"
    /\ last.status = 404
    /\ last.name \in removed

(* C7: the count that GET /list returns is the number of files in the    *)
(* storage directory whose name starts with screenshot_, and the length  *)
(* of the returned list, whatever else the directory holds.              *)
C7_Step ==
    (last'.op = "list" /\ list_screenshots) =>
        /\ last'.count = Cardinality({n \in Files : n.prefix = "screenshot_"})
        /\ last'.count = Len(last'.screenshots)
        /\ Range(last'.screenshots) = {n \in Files : n.prefix = "screenshot_"}

C7_ListCount == [][C7_Step]_vars

C7_Witness ==
    /\ last.op = "list"
    /\ last.count = 1
    /\ Cardinality(DOMAIN storage) = 3
    /\ Cardinality({n \in Files : n.prefix = "screenshot_"}) = 1
    /\ removed # {}

(* C8: every call of capture_screenshot launches one browser of its own: *)
(* a call has launched once as soon as it is past the launch and never   *)
(* again, the launches made are those of the calls past their launch, no *)
(* two calls hold the same browser, and a call waiting to launch can     *)
(* always launch, whatever the number of browsers that are open.         *)
C8_OneEnginePerRequest ==
    /\ \A i \in InFlight : caps[i].launches = (IF caps[i].pc = "launch" THEN 0 ELSE 1)
    /\ attempts = accepted - Cardinality({i \in InFlight : caps[i].pc = "launch"})
    /\ \A i, j \in InFlight :
          (i # j /\ HoldsBrowser(i) /\ HoldsBrowser(j)) => caps[i].browser # caps[j].browser
    /\ Cardinality(browsers) = Cardinality({i \in InFlight : HoldsBrowser(i)})
    /\ \A i \in InFlight : caps[i].pc = "launch" => ENABLED Launch(i)

C8_Witness ==
    /\ Cardinality(browsers) = MaxCaptures
    /\ Cardinality(InFlight) = MaxCaptures

(* C9: a capture that fails before the screenshot step leaves storage    *)
(* unchanged: until that step the generated name is not in storage, the  *)
(* step that raises and the step that ends the call change no file, and  *)
(* at the end of the call the name is still absent.                      *)
FailedEarly(c) ==
    c.pc = "close" /\ c.err \in {"context", "page", "goto", "sleep"}

C9_State ==
    \A i \in InFlight :
        (caps[i].pc \in {"launch", "context", "page", "goto", "sleep", "shot"}
             \/ FailedEarly(caps[i]))
        => caps[i].filename \notin DOMAIN storage

C9_Step ==
    \A i \in InFlight :
        /\ (i \in DOMAIN caps' /\ ~FailedEarly(caps[i]) /\ FailedEarly(caps'[i]))
               => storage' = storage
        /\ (i \notin DOMAIN caps' /\ (caps[i].pc = "launch" \/ FailedEarly(caps[i])))
               => storage' = storage /\ caps[i].filename \notin DOMAIN storage'

C9_EarlyFailureLeavesStorage == [] C9_State /\ [][C9_Step]_vars

C9_Witness ==
    \E i \in InFlight :
        /\ caps[i].pc = "close" /\ caps[i].err = "goto"
        /\ caps[i].filename \notin DOMAIN storage
        /\ Files # {}

(* C10: a file name returned by a success response is in storage as long *)
(* as no DELETE has removed it: a download of it does not answer 404 and *)
(* a list contains it, whatever else happened in between.                *)
Live == Returned \ removed

C10_State == Live \subseteq Files

C10_Step ==
    /\ (last'.op = "download" /\ last'.name \in Live /\ download_screenshot(last'.name))
          => last'.status = 200
    /\ (last'.op = "list" /\ list_screenshots) => Live \subseteq Range(last'.screenshots)

C10_ReturnedStaysRetrievable == [] C10_State /\ [][C10_Step]_vars

C10_Witness ==
    /\ last.op = "download"
    /\ last.status = 200
    /\ last.name \in Live
    /\ removed \cap Returned # {}

====
